---- MODULE Spec2Model ----
(***************************************************************************)
(* Sentence segmenter (scripts/import-story.js, splitIntoSentences),       *)
(* transliteration helper (backend/utils/transliterate-canonical.js) and   *)
(* story importers (scripts/import-story.js,                               *)
(* scripts/import-all-stories-to-railway.js) of the Konkani collector.     *)
(*                                                                         *)
(* A character of a string is a record [ch, at]: ch is the character, at   *)
(* the 1-based position in the input text it was read from (0 for a space  *)
(* that the repair pass inserts when it joins two fragments).  The code    *)
(* only ever looks at ch; at lets the properties say where the characters  *)
(* of a returned sentence come from.                                       *)
(*                                                                         *)
(* Characters:  "a"   a letter (\p{L}, Latin or Devanagari)                *)
(*              "|"   danda U+0964        "||"  double danda U+0965        *)
(*              "."   "!"  "?"  Latin sentence-final marks                 *)
(*              "\""  double quote        ","   other punctuation          *)
(*              " "   space               "\n"  newline                    *)
(***************************************************************************)
EXTENDS Integers, Sequences, FiniteSets, TLC

\* splitIntoSentences
VARIABLES text, i, current, inQuote, sentences, result, returned, pc
\* devanagariToIAST
VARIABLES rulesFile, trText, rules, base, threw, out, trPc
\* the story importers and their database: the stories and sentences tables,
\* the stories_id_seq sequence, the importer that is running (imp), its loop
\* index, its position, the number of database statements it has issued and
\* the database as it was when it started
VARIABLES stories, rows, nextId, imp, impI, impPc, stmts, before
\* check-iast-sanity.js, processBatch: the ids of the sentences table and
\* those whose text_iast differs from devanagariToIAST(text_devanagari), the
\* checkpoint file (0: none), the options, the locals of processBatch, the
\* rows of the current batch still to be examined, the ids examined in this
\* run, and its position
VARIABLES sentenceIds, staleIds, checkpoint, options, lastId, totalProcessed,
          thisBatchSize, batchRows, got, examined, bPc

segvars == <<text, i, current, inQuote, sentences, result, returned, pc>>
trvars == <<rulesFile, trText, rules, base, threw, out, trPc>>
impvars == <<stories, rows, nextId, imp, impI, impPc, stmts, before>>
batchvars == <<sentenceIds, staleIds, checkpoint, options, lastId, totalProcessed,
               thisBatchSize, batchRows, got, examined, bPc>>
vars == <<segvars, trvars, impvars, batchvars>>

\* ---------------------------------------------------------------- bounds
MaxLen == 4
MaxQuoteLen == 7
MaxTrLen == 4
\* story rows ever inserted (values of stories_id_seq)
MaxStories == 3
\* largest id of the sentences table, largest --limit, largest --batch-size
MaxSentenceId == 3
MaxLimit == 2
MaxBatchSize == 2

\* ------------------------------------------------------------ characters
Quote == "\""
Newline == "\n"
Dandas == {"|", "||"}
LatinFinals == {".", "!", "?"}
Whitespace == {" ", "\n"}
\* \p{L}: the letters of the model's alphabet
Letters == {"a"}
\* The characters of the model's alphabet that lie in U+0900..U+097F and are
\* not letters: the danda U+0964 and the double danda U+0965.
DevanagariBlock == Dandas

Alphabet == {"a", " ", Quote, "|", Newline, ".", ","}
QuoteAlphabet == {"a", Quote, "."}

SeqsUpTo(S, n) == UNION {[1..k -> S] : k \in 0..n}
Texts == SeqsUpTo(Alphabet, MaxLen) \cup SeqsUpTo(QuoteAlphabet, MaxQuoteLen)

\* --------------------------------------------------------------- strings
Char(k) == [ch |-> text[k], at |-> k]
Space == [ch |-> " ", at |-> 0]

MinOf(S) == CHOOSE x \in S : \A y \in S : x <= y
MaxOf(S) == CHOOSE x \in S : \A y \in S : x >= y

\* String.prototype.trim
Trim(s) ==
    LET keep == {k \in 1..Len(s) : s[k].ch \notin Whitespace}
    IN  IF keep = {} THEN <<>> ELSE SubSeq(s, MinOf(keep), MaxOf(keep))

\* const trimmed = current.trim(); if (trimmed) sentences.push(trimmed);
EmitAlways(sents, cur) == Append(sents, Trim(cur))
EmitIfNonEmpty(sents, cur) ==
    IF Trim(cur) # <<>> THEN Append(sents, Trim(cur)) ELSE sents

\* /[\p{L}\u0900-\u097F]/u.test(s)
HasLetter(s) == \E k \in 1..Len(s) : s[k].ch \in Letters \cup DevanagariBlock

isStandalonePunc(s) ==
    IF s = <<>> \/ Trim(s) = <<>> THEN FALSE ELSE ~HasLetter(s)

\* ------------------------------------------------------------------ scan
SegStart ==
    /\ i = 1
    /\ current = <<>>
    /\ inQuote = FALSE
    /\ sentences = <<>>
    /\ result = <<>>
    /\ returned = <<>>

TrStart ==
    /\ base = <<>>
    /\ threw = "none"
    /\ out = <<>>

\* devanagariToIAST is not running
TrIdle ==
    /\ rulesFile = [kind |-> "absent", diacritical |-> <<>>]
    /\ trText = [null |-> FALSE, s |-> <<>>]
    /\ rules = <<>>
    /\ TrStart
    /\ trPc = "idle"

\* splitIntoSentences is not running
SegIdle ==
    /\ text = <<>>
    /\ SegStart
    /\ pc = "idle"

\* no importer is running
NoImport ==
    [script |-> "none", file |-> "", title |-> "",
     replace |-> FALSE, dryRun |-> FALSE, blank |-> FALSE, sents |-> <<>>,
     id |-> 0, k |-> 0, clean |-> FALSE]

EmptyDb == [stories |-> {}, rows |-> {}]

ImpIdle ==
    /\ stories = {}
    /\ rows = {}
    /\ nextId = 1
    /\ imp = NoImport
    /\ impI = 0
    /\ impPc = "idle"
    /\ stmts = 0
    /\ before = EmptyDb

\* the options before the command line is parsed
NoOptions ==
    [all |-> FALSE, limit |-> 0, batchSize |-> 0, startId |-> 0,
     dryRun |-> FALSE, checkpointFile |-> FALSE]

\* processBatch is not running
BatchLocalsIdle ==
    /\ options = NoOptions
    /\ lastId = 0
    /\ totalProcessed = 0
    /\ thisBatchSize = 0
    /\ batchRows = <<>>
    /\ got = 0
    /\ examined = <<>>
    /\ bPc = "idle"

BatchIdle ==
    /\ sentenceIds = {}
    /\ staleIds = {}
    /\ checkpoint = 0
    /\ BatchLocalsIdle

Init ==
    /\ text \in Texts
    /\ SegStart
    /\ pc = "scan"
    /\ TrIdle
    /\ ImpIdle
    /\ BatchIdle

Scanning == pc = "scan" /\ i <= Len(text)

\* if (c === '"') { current += c; inQuote = !inQuote; if (!inQuote) {emit} ; continue }
ScanQuoteEmitOnOpen ==
    /\ Scanning
    /\ text[i] = Quote
    /\ inQuote' = ~inQuote
    /\ IF inQuote
          THEN /\ sentences' = EmitIfNonEmpty(sentences, Append(current, Char(i)))
               /\ current' = <<>>
          ELSE /\ sentences' = EmitIfNonEmpty(sentences, current)
               /\ current' = <<Char(i)>>
    /\ i' = i + 1
    /\ UNCHANGED <<text, result, returned, pc>>
    /\ UNCHANGED <<trvars, impvars, batchvars>>

ScanQuoteNoEmit ==
    /\ Scanning
    /\ text[i] = Quote
    /\ inQuote' = ~inQuote
    /\ current' = Append(current, Char(i))
    /\ i' = i + 1
    /\ UNCHANGED <<text, sentences, result, returned, pc>>
    /\ UNCHANGED <<trvars, impvars, batchvars>>

ScanQuote ==
    /\ Scanning
    /\ text[i] = Quote
    /\ inQuote' = ~inQuote
    /\ IF inQuote
          THEN /\ sentences' = EmitIfNonEmpty(sentences, Append(current, Char(i)))
               /\ current' = <<>>
          ELSE /\ current' = Append(current, Char(i))
               /\ UNCHANGED sentences
    /\ i' = i + 1
    /\ UNCHANGED <<text, result, returned, pc>>
    /\ UNCHANGED <<trvars, impvars, batchvars>>

\* if (inQuote) { current += c; continue }
ScanInQuoteNewlineCloses ==
    /\ Scanning
    /\ text[i] # Quote
    /\ inQuote
    /\ IF text[i] = Newline
          THEN /\ sentences' = EmitIfNonEmpty(sentences, current)
               /\ current' = <<>>
               /\ inQuote' = FALSE
          ELSE /\ current' = Append(current, Char(i))
               /\ UNCHANGED <<sentences, inQuote>>
    /\ i' = i + 1
    /\ UNCHANGED <<text, result, returned, pc>>
    /\ UNCHANGED <<trvars, impvars, batchvars>>

ScanInQuoteSplit ==
    /\ Scanning
    /\ text[i] # Quote
    /\ inQuote
    /\ IF text[i] \in LatinFinals
          THEN /\ sentences' = EmitIfNonEmpty(sentences, Append(current, Char(i)))
               /\ current' = <<>>
          ELSE /\ current' = Append(current, Char(i))
               /\ UNCHANGED sentences
    /\ i' = i + 1
    /\ UNCHANGED <<text, inQuote, result, returned, pc>>
    /\ UNCHANGED <<trvars, impvars, batchvars>>

ScanInQuote ==
    /\ Scanning
    /\ text[i] # Quote
    /\ inQuote
    /\ current' = Append(current, Char(i))
    /\ i' = i + 1
    /\ UNCHANGED <<text, inQuote, sentences, result, returned, pc>>
    /\ UNCHANGED <<trvars, impvars, batchvars>>

\* if (/[<danda><double danda>]/.test(c)) { current += c; emit; current = ''; continue }
ScanDandaDrop ==
    /\ Scanning
    /\ ~inQuote
    /\ text[i] \in Dandas
    /\ sentences' = EmitIfNonEmpty(sentences, current)
    /\ current' = <<>>
    /\ i' = i + 1
    /\ UNCHANGED <<text, inQuote, result, returned, pc>>
    /\ UNCHANGED <<trvars, impvars, batchvars>>

ScanDanda ==
    /\ Scanning
    /\ ~inQuote
    /\ text[i] \in Dandas
    /\ sentences' = EmitIfNonEmpty(sentences, Append(current, Char(i)))
    /\ current' = <<>>
    /\ i' = i + 1
    /\ UNCHANGED <<text, inQuote, result, returned, pc>>
    /\ UNCHANGED <<trvars, impvars, batchvars>>

\* if (c === '\n') { emit; current = ''; continue }
ScanNewlineStuck ==
    /\ Scanning
    /\ ~inQuote
    /\ text[i] = Newline
    /\ sentences' = EmitIfNonEmpty(sentences, current)
    /\ current' = <<>>
    /\ UNCHANGED <<i, text, inQuote, result, returned, pc>>
    /\ UNCHANGED <<trvars, impvars, batchvars>>

ScanNewlineAppend ==
    /\ Scanning
    /\ ~inQuote
    /\ text[i] = Newline
    /\ current' = Append(current, Char(i))
    /\ i' = i + 1
    /\ UNCHANGED <<text, inQuote, sentences, result, returned, pc>>
    /\ UNCHANGED <<trvars, impvars, batchvars>>

ScanNewline ==
    /\ Scanning
    /\ ~inQuote
    /\ text[i] = Newline
    /\ sentences' = EmitIfNonEmpty(sentences, current)
    /\ current' = <<>>
    /\ i' = i + 1
    /\ UNCHANGED <<text, inQuote, result, returned, pc>>
    /\ UNCHANGED <<trvars, impvars, batchvars>>

\* if (/[.!?]/.test(c)) { current += c; emit; current = ''; continue }
ScanLatinNoEmit ==
    /\ Scanning
    /\ ~inQuote
    /\ text[i] \in LatinFinals
    /\ current' = Append(current, Char(i))
    /\ i' = i + 1
    /\ UNCHANGED <<text, inQuote, sentences, result, returned, pc>>
    /\ UNCHANGED <<trvars, impvars, batchvars>>

ScanLatin ==
    /\ Scanning
    /\ ~inQuote
    /\ text[i] \in LatinFinals
    /\ sentences' = EmitIfNonEmpty(sentences, Append(current, Char(i)))
    /\ current' = <<>>
    /\ i' = i + 1
    /\ UNCHANGED <<text, inQuote, result, returned, pc>>
    /\ UNCHANGED <<trvars, impvars, batchvars>>

\* current += c
ScanOther ==
    /\ Scanning
    /\ ~inQuote
    /\ text[i] \notin {Quote, Newline} \cup Dandas \cup LatinFinals
    /\ current' = Append(current, Char(i))
    /\ i' = i + 1
    /\ UNCHANGED <<text, inQuote, sentences, result, returned, pc>>
    /\ UNCHANGED <<trvars, impvars, batchvars>>

\* after the loop: const trimmed = current.trim(); if (trimmed) sentences.push(trimmed);
\* then the repair loop starts at its first segment
FinalFlushClosedOnly ==
    /\ pc = "scan"
    /\ i > Len(text)
    /\ sentences' = IF inQuote THEN sentences ELSE EmitIfNonEmpty(sentences, current)
    /\ i' = 1
    /\ pc' = "repair"
    /\ UNCHANGED <<text, current, inQuote, result, returned>>
    /\ UNCHANGED <<trvars, impvars, batchvars>>

FinalFlush ==
    /\ pc = "scan"
    /\ i > Len(text)
    /\ sentences' = EmitIfNonEmpty(sentences, current)
    /\ i' = 1
    /\ pc' = "repair"
    /\ UNCHANGED <<text, current, inQuote, result, returned>>
    /\ UNCHANGED <<trvars, impvars, batchvars>>

\* ---------------------------------------------------------------- repair
\* (a + ' ' + b).trim()
Join(a, b) == Trim(a \o <<Space>> \o b)

SetLast(r, s) == [r EXCEPT ![Len(r)] = s]

\* sentences[i + 1] = (seg + ' ' + sentences[i + 1]).trim()
MergeForwardOverwrite(sents, k) == [sents EXCEPT ![k + 1] = sents[k]]
MergeForward(sents, k) == [sents EXCEPT ![k + 1] = Join(sents[k], sents[k + 1])]

\* one iteration of: for (let i = 0; i < sentences.length; i++) { ... }
RepairStep ==
    /\ pc = "repair"
    /\ i <= Len(sentences)
    /\ LET seg == sentences[i] IN
       IF seg = <<>>
          THEN UNCHANGED <<sentences, result>>
          ELSE IF isStandalonePunc(seg)
                  THEN IF Len(result) > 0
                          THEN /\ result' = SetLast(result, Join(result[Len(result)], seg))
                               /\ UNCHANGED sentences
                          ELSE IF i + 1 <= Len(sentences)
                                  THEN /\ sentences' = MergeForward(sentences, i)
                                       /\ UNCHANGED result
                                  ELSE /\ result' = Append(result, seg)
                                       /\ UNCHANGED sentences
                  ELSE /\ result' = Append(result, seg)
                       /\ UNCHANGED sentences
    /\ i' = i + 1
    /\ UNCHANGED <<text, current, inQuote, returned, pc>>
    /\ UNCHANGED <<trvars, impvars, batchvars>>

\* return result.filter(s => s && s.length > 0)
Return ==
    /\ pc = "repair"
    /\ i > Len(sentences)
    /\ returned' = SelectSeq(result, LAMBDA s : Len(s) > 0)
    /\ pc' = "done"
    /\ UNCHANGED <<text, i, current, inQuote, sentences, result>>
    /\ UNCHANGED <<trvars, impvars, batchvars>>

Next ==
    \/ ScanQuote
    \/ ScanInQuote
    \/ ScanDanda
    \/ ScanNewline
    \/ ScanLatin
    \/ ScanOther
    \/ FinalFlush
    \/ RepairStep
    \/ Return

Spec == Init /\ [][Next]_vars

\* splitIntoSentences is straight-line sequential code: a step that can be
\* taken is taken.
FairSpec == Spec /\ WF_vars(Next)

\* ------------------------------------------------ transliterate-canonical
\* Characters of the transliteration model:
\*   "KA"     a Devanagari consonant, which the base table maps to "k" "a"
\*   "NUKTA"  U+093C, a Devanagari-block sign the base table leaves unmapped
\*   "MARK"   a combining mark of U+0300..U+036F
\*   "k" "a" "q"  Latin letters;  " " and "\n" whitespace
TrDevanagari == {"KA", "NUKTA"}
TrCombining == {"MARK"}
TrAlphabet == {"KA", "NUKTA", "MARK", "q", " ", Newline}

\* A rule {from, to} of transliteration_rules.json; valid is FALSE when
\* new RegExp(rule.from, 'g') throws a SyntaxError.
Rule(from, to) == [from |-> from, to |-> to, valid |-> TRUE]
BadRule == [from |-> <<"(">>, to |-> <<>>, valid |-> FALSE]
RuleKaToQ == Rule(<<"k", "a">>, <<"q">>)
RuleQToK == Rule(<<"q">>, <<"k">>)
\* a rule whose replacement is itself a Devanagari-block character
RuleQToNukta == Rule(<<"q">>, <<"NUKTA">>)
RuleQqToQ == Rule(<<"q", "q">>, <<"q">>)
\* a rule without "to": rule.to || ''
RuleQToNone == Rule(<<"q">>, <<>>)
RuleSets ==
    {<<>>, <<RuleKaToQ>>, <<RuleKaToQ, RuleQToK>>, <<RuleQToK, RuleKaToQ>>,
     <<BadRule>>, <<RuleKaToQ, BadRule>>,
     <<RuleQToNukta>>, <<RuleQqToQ, RuleQToNone>>}

\* transliteration_rules.json as the module finds it when it is loaded:
\* absent (readFileSync throws), unparsable (JSON.parse throws), parsed
\* without a "diacritical" key, or parsed with a rule list.
RuleFiles ==
    {[kind |-> k, diacritical |-> <<>>] : k \in {"absent", "unparsable", "nokey"}}
        \cup {[kind |-> "rules", diacritical |-> rs] : rs \in RuleSets}

\* The arguments of devanagariToIAST: null/undefined, or a string.
TrInputs ==
    {[null |-> TRUE, s |-> <<>>]}
        \cup {[null |-> FALSE, s |-> x] : x \in SeqsUpTo(TrAlphabet, MaxTrLen)}

\* !text
Falsy(t) == t.null \/ t.s = <<>>

\* Sanscript.t(text, 'devanagari', 'iast'): the mapped characters are
\* romanised, every other character passes through.
RECURSIVE SanscriptT(_)
SanscriptT(s) ==
    IF s = <<>> THEN <<>>
    ELSE (IF s[1] = "KA" THEN <<"k", "a">> ELSE <<s[1]>>) \o SanscriptT(Tail(s))

\* out.replace(new RegExp(rule.from, 'g'), rule.to || '') for a literal pattern
RECURSIVE ReplaceAll(_, _, _)
ReplaceAll(s, from, to) ==
    IF Len(s) < Len(from) \/ from = <<>> THEN s
    ELSE IF SubSeq(s, 1, Len(from)) = from
            THEN to \o ReplaceAll(SubSeq(s, Len(from) + 1, Len(s)), from, to)
            ELSE <<s[1]>> \o ReplaceAll(Tail(s), from, to)

\* (rules.diacritical || []).forEach(rule => { out = out.replace(re, rule.to || '') })
RECURSIVE ApplyRuleListReversed(_, _)
ApplyRuleListReversed(s, rs) ==
    IF rs = <<>> THEN s
    ELSE ApplyRuleListReversed(
            ReplaceAll(s, rs[Len(rs)].from, rs[Len(rs)].to), SubSeq(rs, 1, Len(rs) - 1))

RECURSIVE ApplyRuleList(_, _)
ApplyRuleList(s, rs) ==
    IF rs = <<>> THEN s
    ELSE ApplyRuleList(ReplaceAll(s, rs[1].from, rs[1].to), Tail(rs))

\* out.replace(/[\u0900-\u097F]/g, '')
StripDevanagari(s) == SelectSeq(s, LAMBDA c : c \notin TrDevanagari)

\* out.replace(/[\u0300-\u036F\u1AB0-\u1AFF\u20D0-\u20FF]/g, '')
StripCombiningNone(s) == s
StripCombining(s) == SelectSeq(s, LAMBDA c : c \notin TrCombining)

RECURSIVE CollapseRuns(_)
CollapseRuns(s) ==
    IF s = <<>> THEN <<>>
    ELSE IF s[1] \in Whitespace
            THEN IF Len(s) > 1 /\ s[2] \in Whitespace
                    THEN CollapseRuns(Tail(s))
                    ELSE <<" ">> \o CollapseRuns(Tail(s))
            ELSE <<s[1]>> \o CollapseRuns(Tail(s))

TrimStr(s) ==
    LET keep == {k \in 1..Len(s) : s[k] \notin Whitespace}
    IN  IF keep = {} THEN <<>> ELSE SubSeq(s, MinOf(keep), MaxOf(keep))

\* out.replace(/\s+/g, ' ').trim()
CollapseNoTrim(s) == CollapseRuns(s)
CollapseWhitespace(s) == TrimStr(CollapseRuns(s))

\* stages 3-5 of applyRules
CleanupCollapseFirst(s) == StripCombining(StripDevanagari(CollapseWhitespace(s)))
Cleanup(s) == CollapseWhitespace(StripCombining(StripDevanagari(s)))

applyRulesStripFirst(iastText, rs) == ApplyRuleList(Cleanup(iastText), rs)
applyRules(iastText, rs) == Cleanup(ApplyRuleList(iastText, rs))

AllValid(rs) == \A k \in 1..Len(rs) : rs[k].valid

\* let rules = { diacritical: [] }; the module is about to read the file
TrInit ==
    /\ SegIdle
    /\ ImpIdle
    /\ BatchIdle
    /\ rulesFile \in RuleFiles
    /\ trText \in TrInputs
    /\ rules = <<>>
    /\ TrStart
    /\ trPc = "load"

\* try { readFileSync; JSON.parse;
\*       if (parsed && parsed.diacritical) rules.diacritical = parsed.diacritical;
\* } catch (_) {}
LoadRulesUncaught ==
    /\ trPc = "load"
    /\ IF rulesFile.kind \in {"absent", "unparsable"}
          THEN rules' = rules /\ trPc' = "escaped"
          ELSE /\ rules' = IF rulesFile.kind = "rules"
                               THEN rulesFile.diacritical ELSE rules
               /\ trPc' = "call"
    /\ UNCHANGED <<rulesFile, trText, base, threw, out>>
    /\ UNCHANGED <<segvars, impvars, batchvars>>

LoadRules ==
    /\ trPc = "load"
    /\ rules' = IF rulesFile.kind = "rules" THEN rulesFile.diacritical ELSE rules
    /\ trPc' = "call"
    /\ UNCHANGED <<rulesFile, trText, base, threw, out>>
    /\ UNCHANGED <<segvars, impvars, batchvars>>

\* if (!text) return '';
ReturnEmptyOnFalsy ==
    /\ trPc = "call"
    /\ Falsy(trText)
    /\ out' = <<>>
    /\ trPc' = "returned"
    /\ UNCHANGED <<rulesFile, trText, rules, base, threw>>
    /\ UNCHANGED <<segvars, impvars, batchvars>>

\* try { const base = Sanscript.t(text, 'devanagari', 'iast');
BaseTransliterate ==
    /\ trPc = "call"
    /\ ~Falsy(trText)
    /\ base' = SanscriptT(trText.s)
    /\ trPc' = "rules"
    /\ UNCHANGED <<rulesFile, trText, rules, threw, out>>
    /\ UNCHANGED <<segvars, impvars, batchvars>>

\* Sanscript.t throws inside the try block
BaseThrows ==
    /\ trPc = "call"
    /\ ~Falsy(trText)
    /\ threw' = "base"
    /\ trPc' = "catch"
    /\ UNCHANGED <<rulesFile, trText, rules, base, out>>
    /\ UNCHANGED <<segvars, impvars, batchvars>>

\* return applyRules(base);
ApplyRulesReturn ==
    /\ trPc = "rules"
    /\ AllValid(rules)
    /\ out' = applyRules(base, rules)
    /\ trPc' = "returned"
    /\ UNCHANGED <<rulesFile, trText, rules, base, threw>>
    /\ UNCHANGED <<segvars, impvars, batchvars>>

\* new RegExp(rule.from, 'g') throws inside applyRules, inside the try block
ApplyRulesThrowsUncaught ==
    /\ trPc = "rules"
    /\ ~AllValid(rules)
    /\ threw' = "rules"
    /\ trPc' = "escaped"
    /\ UNCHANGED <<rulesFile, trText, rules, base, out>>
    /\ UNCHANGED <<segvars, impvars, batchvars>>

ApplyRulesThrows ==
    /\ trPc = "rules"
    /\ ~AllValid(rules)
    /\ threw' = "rules"
    /\ trPc' = "catch"
    /\ UNCHANGED <<rulesFile, trText, rules, base, out>>
    /\ UNCHANGED <<segvars, impvars, batchvars>>

\* catch (err) { console.error(...); return ''; }
CatchReturnEmpty ==
    /\ trPc = "catch"
    /\ out' = <<>>
    /\ trPc' = "returned"
    /\ UNCHANGED <<rulesFile, trText, rules, base, threw>>
    /\ UNCHANGED <<segvars, impvars, batchvars>>

TrNext ==
    \/ LoadRules
    \/ ReturnEmptyOnFalsy
    \/ BaseTransliterate
    \/ BaseThrows
    \/ ApplyRulesReturn
    \/ ApplyRulesThrows
    \/ CatchReturnEmpty

TrSpec == TrInit /\ [][TrNext]_vars


\* ------------------------------------------ import-all-stories-to-railway
\* The splitIntoSentences of import-all-stories-to-railway.js, on plain
\* characters.

\* text.split(/[<danda><double danda>\n]+/): the pieces between maximal runs
\* of delimiters, an empty piece before a leading run and after a trailing one
RailwayDelims == Dandas \cup {Newline}

RECURSIVE RailwayPieces(_, _, _)
RailwayPieces(s, cur, inRun) ==
    IF s = <<>> THEN <<cur>>
    ELSE IF s[1] \in RailwayDelims
            THEN IF inRun THEN RailwayPieces(Tail(s), <<>>, TRUE)
                          ELSE <<cur>> \o RailwayPieces(Tail(s), <<>>, TRUE)
            ELSE RailwayPieces(Tail(s), Append(cur, s[1]), FALSE)

\* .map(s => s.trim())
RailwayRaw(s) ==
    LET pieces == RailwayPieces(s, <<>>, FALSE)
    IN  [k \in 1..Len(pieces) |-> TrimStr(pieces[k])]

RailwayHasLetter(s) ==
    \E k \in 1..Len(s) : s[k] \in Letters \cup DevanagariBlock

RailwayIsStandalonePunc(s) ==
    IF s = <<>> \/ TrimStr(s) = <<>> THEN FALSE ELSE ~RailwayHasLetter(s)

RailwayJoin(a, b) == TrimStr(a \o <<" ">> \o b)

\* the loop over raw, which it rewrites at i + 1 on a forward merge
RECURSIVE RailwayRepair(_, _, _)
RailwayRepair(raw, k, sents) ==
    IF k > Len(raw) THEN sents
    ELSE LET segment == raw[k] IN
         IF segment = <<>> THEN RailwayRepair(raw, k + 1, sents)
         ELSE IF RailwayIsStandalonePunc(segment)
            THEN IF Len(sents) > 0
                    THEN RailwayRepair(raw, k + 1,
                            [sents EXCEPT ![Len(sents)] = RailwayJoin(sents[Len(sents)], segment)])
                 ELSE IF k + 1 <= Len(raw) /\ raw[k + 1] # <<>>
                    THEN RailwayRepair(
                            [raw EXCEPT ![k + 1] = RailwayJoin(segment, raw[k + 1])],
                            k + 1, sents)
                 ELSE RailwayRepair(raw, k + 1, Append(sents, segment))
            ELSE RailwayRepair(raw, k + 1, Append(sents, segment))

RailwaySplitIntoSentences(s) ==
    SelectSeq(RailwayRepair(RailwayRaw(s), 1, <<>>), LAMBDA x : Len(x) > 0)

\* ------------------------------------------------------------- importers
\* scripts/import-story.js (importStory) and
\* scripts/import-all-stories-to-railway.js (main, importStory) against the
\* stories and sentences tables.  The database answers every statement, and
\* the importers run one after the other.

Files == {"f1", "f2"}
Titles == {"t1", "t2"}

\* the sentence texts for which devanagariToIAST ends in its catch
FailingTexts == {"sBad"}

\* devanagariToIAST(text) of a sentence text: '' from the catch
IastOf(t) == IF t \in FailingTexts THEN <<>> ELSE <<"iast", t>>

\* transliterateToIAST(devanagari): try { return devanagariToIAST } catch { return '' }
transliterateToIAST(t) == IastOf(t)

\* A story file as the importer sees it: blank is content.trim().length = 0,
\* sents is the list splitIntoSentences returns for the content.
BlankFile == [blank |-> TRUE, sents |-> <<>>]
FileOf(ss) == [blank |-> FALSE, sents |-> ss]

\* import-story.js: its splitIntoSentences returns a sentence for every
\* file that is not blank
StoryFiles == {BlankFile, FileOf(<<"s1">>), FileOf(<<"s1", "sBad", "s2">>)}

\* import-all-stories-to-railway.js: a file of dandas only is not blank and
\* splits into no sentence
RailwayFiles == StoryFiles \cup {FileOf(<<>>)}

\* the configured stories of import-all-stories-to-railway.js
STORIES == <<[file |-> "f1", title |-> "t1"], [file |-> "f2", title |-> "t2"]>>

\* queryOne: rows[0] || null, of the rows a SELECT matches
Null == [id |-> 0, title |-> "", source_file |-> "", total_sentences |-> 0]
QueryOne(S) == IF S = {} THEN {Null} ELSE S

StoriesWithFile(f) == {s \in stories : s.source_file = f}
StoriesWithTitle(t) == {s \in stories : s.title = t}

AtMostOnePerFile(ss) ==
    \A a, b \in ss : a.source_file = b.source_file => a = b

\* DELETE FROM stories WHERE id = $1, with ON DELETE CASCADE on sentences
StoriesAfterDelete(id) == {s \in stories : s.id # id}
RowsAfterDelete(id) == {r \in rows : r.story_id # id}

\* existingByFile || (existingByTitle && existingByTitle.source_file !== basename ? existingByTitle : null)
ToDeleteByTitleOnly(byFile, byTitle, f) ==
    IF byTitle # Null /\ byTitle.source_file # f THEN byTitle ELSE Null
ToDelete(byFile, byTitle, f) ==
    IF byFile # Null THEN byFile
    ELSE IF byTitle # Null /\ byTitle.source_file # f THEN byTitle
    ELSE Null

\* INSERT INTO stories (title, source_file, language, total_sentences)
StoryRow(id, title, f, n) ==
    [id |-> id, title |-> title, source_file |-> f, total_sentences |-> n]

\* INSERT INTO sentences (story_id, order_in_story, text_devanagari, text_iast, char_count)
\* VALUES (story.id, i + 1, text, iast, charCount), i the 0-based loop index
SentenceRowZeroBased(id, k, t, iast) ==
    [story_id |-> id, order_in_story |-> k - 1, text_devanagari |-> t, text_iast |-> iast]
SentenceRow(id, k, t, iast) ==
    [story_id |-> id, order_in_story |-> k, text_devanagari |-> t, text_iast |-> iast]

Snapshot == [stories |-> stories, rows |-> rows]

ImpInit ==
    /\ SegIdle
    /\ TrIdle
    /\ ImpIdle
    /\ BatchIdle

\* ---- scripts/import-story.js

\* node scripts/import-story.js --file f [--title t] [--replace]
StartImportStory ==
    /\ impPc = "idle"
    /\ nextId <= MaxStories
    /\ \E f \in Files, t \in Titles, r \in BOOLEAN :
          imp' = [NoImport EXCEPT !.script = "story", !.file = f, !.title = t,
                                  !.replace = r]
    /\ impI' = 0
    /\ impPc' = "read"
    /\ stmts' = 0
    /\ before' = Snapshot
    /\ UNCHANGED <<stories, rows, nextId>>
    /\ UNCHANGED <<segvars, trvars, batchvars>>

\* read the file, throw on empty content, split, throw on no sentences
ReadAndSplitDeleteFirst ==
    /\ impPc = "read"
    /\ imp.script = "story"
    /\ \E c \in StoryFiles :
          /\ imp' = [imp EXCEPT !.blank = c.blank, !.sents = c.sents,
                                !.clean = AtMostOnePerFile(stories)]
          /\ impPc' = IF c.blank \/ c.sents = <<>> THEN "failed" ELSE "insert"
    /\ IF imp.replace /\ StoriesWithFile(imp.file) # {}
          THEN /\ stories' = stories \ StoriesWithFile(imp.file)
               /\ rows' = {r \in rows :
                              \A st \in StoriesWithFile(imp.file) : r.story_id # st.id}
               /\ stmts' = stmts + 2
          ELSE UNCHANGED <<stories, rows, stmts>>
    /\ UNCHANGED <<nextId, impI, before>>
    /\ UNCHANGED <<segvars, trvars, batchvars>>

ReadAndSplit ==
    /\ impPc = "read"
    /\ imp.script = "story"
    /\ \E c \in StoryFiles :
          /\ imp' = [imp EXCEPT !.blank = c.blank, !.sents = c.sents,
                                !.clean = AtMostOnePerFile(stories)]
          /\ impPc' = IF c.blank \/ c.sents = <<>> THEN "failed"
                      ELSE IF imp.replace THEN "replace" ELSE "insert"
    /\ UNCHANGED <<stories, rows, nextId, impI, stmts, before>>
    /\ UNCHANGED <<segvars, trvars, batchvars>>

\* if (options.replace) { existingByFile; existingByTitle; toDelete; DELETE }
ReplaceExisting ==
    /\ impPc = "replace"
    /\ imp.script = "story"
    /\ \E byFile \in QueryOne(StoriesWithFile(imp.file)),
          byTitle \in QueryOne(StoriesWithTitle(imp.title)) :
          LET toDelete == ToDelete(byFile, byTitle, imp.file) IN
          IF toDelete # Null
             THEN /\ stories' = StoriesAfterDelete(toDelete.id)
                  /\ rows' = RowsAfterDelete(toDelete.id)
                  /\ stmts' = stmts + 3
             ELSE /\ UNCHANGED <<stories, rows>>
                  /\ stmts' = stmts + 2
    /\ impPc' = "insert"
    /\ UNCHANGED <<nextId, imp, impI, before>>
    /\ UNCHANGED <<segvars, trvars, batchvars>>

\* const story = await queryOne(INSERT INTO stories ... RETURNING id)
InsertStory ==
    /\ impPc = "insert"
    /\ imp.script = "story"
    /\ stories' = stories \cup
          {StoryRow(nextId, imp.title, imp.file, Len(imp.sents))}
    /\ imp' = [imp EXCEPT !.id = nextId]
    /\ nextId' = nextId + 1
    /\ impI' = 1
    /\ impPc' = "loop"
    /\ stmts' = stmts + 1
    /\ UNCHANGED <<rows, before>>
    /\ UNCHANGED <<segvars, trvars, batchvars>>

\* the body of for (let i = 0; i < sentences.length; i++)
InsertSentenceAbortOnFailure ==
    /\ impPc = "loop"
    /\ imp.script = "story"
    /\ impI <= Len(imp.sents)
    /\ IF imp.sents[impI] \in FailingTexts
          THEN /\ impPc' = "failed"
               /\ UNCHANGED <<rows, impI, stmts>>
          ELSE /\ rows' = rows \cup {SentenceRow(imp.id, impI, imp.sents[impI],
                                                 transliterateToIAST(imp.sents[impI]))}
               /\ impI' = impI + 1
               /\ stmts' = stmts + 1
               /\ UNCHANGED impPc
    /\ UNCHANGED <<stories, nextId, imp, before>>
    /\ UNCHANGED <<segvars, trvars, batchvars>>

InsertSentence ==
    /\ impPc = "loop"
    /\ imp.script = "story"
    /\ impI <= Len(imp.sents)
    /\ rows' = rows \cup {SentenceRow(imp.id, impI, imp.sents[impI],
                                      transliterateToIAST(imp.sents[impI]))}
    /\ impI' = impI + 1
    /\ stmts' = stmts + 1
    /\ UNCHANGED <<stories, nextId, imp, impPc, before>>
    /\ UNCHANGED <<segvars, trvars, batchvars>>

\* the loop ends: the summary is printed
ImportComplete ==
    /\ impPc = "loop"
    /\ imp.script = "story"
    /\ impI > Len(imp.sents)
    /\ impPc' = "done"
    /\ UNCHANGED <<stories, rows, nextId, imp, impI, stmts, before>>
    /\ UNCHANGED <<segvars, trvars, batchvars>>

\* process.exit(0) after the summary, process.exit(1) in the catch
Exit ==
    /\ impPc \in {"done", "failed"}
    /\ imp.script = "story"
    /\ imp' = NoImport
    /\ impI' = 0
    /\ impPc' = "idle"
    /\ stmts' = 0
    /\ before' = EmptyDb
    /\ UNCHANGED <<stories, rows, nextId>>
    /\ UNCHANGED <<segvars, trvars, batchvars>>

\* ---- scripts/import-all-stories-to-railway.js

\* node scripts/import-all-stories-to-railway.js [--dry-run] [--replace]
StartRailway ==
    /\ impPc = "idle"
    /\ \E d, r \in BOOLEAN :
          /\ d \/ nextId + Len(STORIES) - 1 <= MaxStories
          /\ imp' = [NoImport EXCEPT !.script = "railway", !.dryRun = d,
                                     !.replace = r, !.k = 1]
    /\ impI' = 0
    /\ impPc' = "next"
    /\ stmts' = 0
    /\ before' = Snapshot
    /\ UNCHANGED <<stories, rows, nextId>>
    /\ UNCHANGED <<segvars, trvars, batchvars>>

\* importStory(storyConfig) up to the dry-run return: read the file, throw
\* on empty content, split, and with --dry-run preview and return
RailwayReadIgnoringDryRun ==
    /\ impPc = "next"
    /\ imp.k <= Len(STORIES)
    /\ \E c \in RailwayFiles :
          /\ imp' = [imp EXCEPT !.file = STORIES[imp.k].file,
                                !.title = STORIES[imp.k].title,
                                !.blank = c.blank, !.sents = c.sents, !.id = 0,
                                !.clean = AtMostOnePerFile(stories)]
          /\ impPc' = IF c.blank THEN "threw"
                      ELSE IF imp.replace THEN "replace" ELSE "insert"
    /\ impI' = 0
    /\ UNCHANGED <<stories, rows, nextId, stmts, before>>
    /\ UNCHANGED <<segvars, trvars, batchvars>>

RailwayRead ==
    /\ impPc = "next"
    /\ imp.k <= Len(STORIES)
    /\ \E c \in RailwayFiles :
          /\ imp' = [imp EXCEPT !.file = STORIES[imp.k].file,
                                !.title = STORIES[imp.k].title,
                                !.blank = c.blank, !.sents = c.sents, !.id = 0,
                                !.clean = AtMostOnePerFile(stories)]
          /\ impPc' = IF c.blank THEN "threw"
                      ELSE IF imp.dryRun THEN "skipped"
                      ELSE IF imp.replace THEN "replace" ELSE "insert"
    /\ impI' = 0
    /\ UNCHANGED <<stories, rows, nextId, stmts, before>>
    /\ UNCHANGED <<segvars, trvars, batchvars>>

\* if (options.replace) { existing = SELECT id ... WHERE source_file; DELETE }
RailwayReplaceExisting ==
    /\ impPc = "replace"
    /\ imp.script = "railway"
    /\ \E existing \in QueryOne(StoriesWithFile(imp.file)) :
          IF existing # Null
             THEN /\ stories' = StoriesAfterDelete(existing.id)
                  /\ rows' = RowsAfterDelete(existing.id)
                  /\ stmts' = stmts + 2
             ELSE /\ UNCHANGED <<stories, rows>>
                  /\ stmts' = stmts + 1
    /\ impPc' = "insert"
    /\ UNCHANGED <<nextId, imp, impI, before>>
    /\ UNCHANGED <<segvars, trvars, batchvars>>

RailwayInsertStory ==
    /\ impPc = "insert"
    /\ imp.script = "railway"
    /\ stories' = stories \cup
          {StoryRow(nextId, imp.title, imp.file, Len(imp.sents))}
    /\ imp' = [imp EXCEPT !.id = nextId]
    /\ nextId' = nextId + 1
    /\ impI' = 1
    /\ impPc' = "loop"
    /\ stmts' = stmts + 1
    /\ UNCHANGED <<rows, before>>
    /\ UNCHANGED <<segvars, trvars, batchvars>>

RailwayInsertSentence ==
    /\ impPc = "loop"
    /\ imp.script = "railway"
    /\ impI <= Len(imp.sents)
    /\ rows' = rows \cup {SentenceRow(imp.id, impI, imp.sents[impI],
                                      IastOf(imp.sents[impI]))}
    /\ impI' = impI + 1
    /\ stmts' = stmts + 1
    /\ UNCHANGED <<stories, nextId, imp, impPc, before>>
    /\ UNCHANGED <<segvars, trvars, batchvars>>

\* return { id: story.id, title, sentences: sentences.length }
RailwayImportComplete ==
    /\ impPc = "loop"
    /\ imp.script = "railway"
    /\ impI > Len(imp.sents)
    /\ impPc' = "done"
    /\ UNCHANGED <<stories, rows, nextId, imp, impI, stmts, before>>
    /\ UNCHANGED <<segvars, trvars, batchvars>>

\* main: results.push(result), or the catch of the loop body, then the next
\* story of STORIES
RailwayNextStory ==
    /\ impPc \in {"done", "skipped", "threw"}
    /\ imp.script = "railway"
    /\ imp' = [imp EXCEPT !.k = imp.k + 1]
    /\ impPc' = "next"
    /\ UNCHANGED <<stories, rows, nextId, impI, stmts, before>>
    /\ UNCHANGED <<segvars, trvars, batchvars>>

\* main: the summary and process.exit(failed.length > 0 ? 1 : 0)
RailwayExit ==
    /\ impPc = "next"
    /\ imp.k > Len(STORIES)
    /\ imp' = NoImport
    /\ impI' = 0
    /\ impPc' = "idle"
    /\ stmts' = 0
    /\ before' = EmptyDb
    /\ UNCHANGED <<stories, rows, nextId>>
    /\ UNCHANGED <<segvars, trvars, batchvars>>

ImpNext ==
    \/ StartImportStory
    \/ ReadAndSplit
    \/ ReplaceExisting
    \/ InsertStory
    \/ InsertSentence
    \/ ImportComplete
    \/ Exit
    \/ StartRailway
    \/ RailwayRead
    \/ RailwayReplaceExisting
    \/ RailwayInsertStory
    \/ RailwayInsertSentence
    \/ RailwayImportComplete
    \/ RailwayNextStory
    \/ RailwayExit

ImpSpec == ImpInit /\ [][ImpNext]_vars
\* ------------------------------------------------------ check-iast-sanity
\* scripts/check-iast-sanity.js: processBatch and the checkpoint load before
\* it.  The options are those that parse to integers; the database answers
\* every statement, the checkpoint file can be written, and nothing else
\* inserts into sentences.

\* the ids of S in increasing order: ORDER BY id
RECURSIVE SortedIds(_)
SortedIds(S) ==
    IF S = {} THEN <<>> ELSE <<MinOf(S)>> \o SortedIds(S \ {MinOf(S)})

\* LIMIT n
Take(q, n) == SubSeq(q, 1, IF n < Len(q) THEN n ELSE Len(q))

\* SELECT id, ... FROM sentences WHERE id > $1 ORDER BY id LIMIT $2
SelectAfter(last, n) == Take(SortedIds({x \in sentenceIds : x > last}), n)

\* const all = options.all || limit === 0
AllRows(o) == o.all \/ o.limit = 0

\* all ? batchSize : Math.min(batchSize, limit - totalProcessed)
BatchSizeIgnoringLimit(o, total) == o.batchSize
BatchSizeFor(o, total) ==
    IF AllRows(o) THEN o.batchSize
    ELSE IF o.batchSize < o.limit - total THEN o.batchSize ELSE o.limit - total

\* if (data && data.lastId) options.startId = String(data.lastId), when
\* --checkpoint-file is given and the file exists
StartIdIgnoringCheckpoint(useFile, startId) == startId
StartIdFor(useFile, startId) ==
    IF useFile /\ checkpoint # 0 THEN checkpoint ELSE startId

\* a sentences table, some of whose rows have a text_iast that is out of date
BatchInit ==
    /\ SegIdle
    /\ TrIdle
    /\ ImpIdle
    /\ sentenceIds \in SUBSET (1..MaxSentenceId)
    /\ staleIds \in SUBSET sentenceIds
    /\ checkpoint = 0
    /\ BatchLocalsIdle

\* node scripts/check-iast-sanity.js [--limit n] [--batch-size n] [--all]
\* [--start-id n] [--checkpoint-file path] [--dry-run]: parse the options,
\* load the checkpoint, enter processBatch
StartProcessBatch ==
    /\ bPc = "idle"
    /\ \E a, d, f \in BOOLEAN, l \in 0..MaxLimit, b \in 0..MaxBatchSize, st \in 0..1 :
          /\ options' = [all |-> a, limit |-> l, batchSize |-> b,
                         startId |-> StartIdFor(f, st), dryRun |-> d,
                         checkpointFile |-> f]
          /\ lastId' = StartIdFor(f, st)
    /\ totalProcessed' = 0
    /\ thisBatchSize' = 0
    /\ batchRows' = <<>>
    /\ got' = 0
    /\ examined' = <<>>
    /\ bPc' = "top"
    /\ UNCHANGED <<sentenceIds, staleIds, checkpoint>>
    /\ UNCHANGED <<segvars, trvars, impvars>>

\* the head of while (running): thisBatchSize, the break on it, the SELECT
\* and the break on no rows
QueryBatch ==
    /\ bPc = "top"
    /\ LET n == BatchSizeFor(options, totalProcessed)
           fetched == SelectAfter(lastId, n)
       IN  /\ thisBatchSize' = n
           /\ IF n <= 0
                 THEN /\ bPc' = "done"
                      /\ UNCHANGED <<batchRows, got>>
                 ELSE /\ batchRows' = fetched
                      /\ got' = Len(fetched)
                      /\ bPc' = IF fetched = <<>> THEN "done" ELSE "rows"
    /\ UNCHANGED <<sentenceIds, staleIds, checkpoint, options, lastId,
                   totalProcessed, examined>>
    /\ UNCHANGED <<segvars, trvars, impvars>>

\* the body of for (const r of rows)
ExamineRow ==
    /\ bPc = "rows"
    /\ batchRows # <<>>
    /\ LET r == Head(batchRows) IN
       /\ staleIds' = IF r \in staleIds /\ ~options.dryRun
                         THEN staleIds \ {r} ELSE staleIds
       /\ lastId' = r
       /\ examined' = Append(examined, r)
    /\ totalProcessed' = totalProcessed + 1
    /\ batchRows' = Tail(batchRows)
    /\ UNCHANGED <<sentenceIds, checkpoint, options, thisBatchSize, got, bPc>>
    /\ UNCHANGED <<segvars, trvars, impvars>>

\* after the for loop: write the checkpoint, then the two breaks
EndBatch ==
    /\ bPc = "rows"
    /\ batchRows = <<>>
    /\ checkpoint' = IF options.checkpointFile THEN lastId ELSE checkpoint
    /\ bPc' = IF ~AllRows(options) /\ totalProcessed >= options.limit THEN "done"
              ELSE IF AllRows(options) /\ got < thisBatchSize THEN "done"
              ELSE "top"
    /\ UNCHANGED <<sentenceIds, staleIds, options, lastId, totalProcessed,
                   thisBatchSize, batchRows, got, examined>>
    /\ UNCHANGED <<segvars, trvars, impvars>>

\* console.log('Done.'); process.exit(0)
BatchExit ==
    /\ bPc = "done"
    /\ options' = NoOptions
    /\ lastId' = 0
    /\ totalProcessed' = 0
    /\ thisBatchSize' = 0
    /\ batchRows' = <<>>
    /\ got' = 0
    /\ examined' = <<>>
    /\ bPc' = "idle"
    /\ UNCHANGED <<sentenceIds, staleIds, checkpoint>>
    /\ UNCHANGED <<segvars, trvars, impvars>>

\* the process is stopped from outside while processBatch runs
Interrupt ==
    /\ bPc \in {"top", "rows"}
    /\ options' = NoOptions
    /\ lastId' = 0
    /\ totalProcessed' = 0
    /\ thisBatchSize' = 0
    /\ batchRows' = <<>>
    /\ got' = 0
    /\ examined' = <<>>
    /\ bPc' = "idle"
    /\ UNCHANGED <<sentenceIds, staleIds, checkpoint>>
    /\ UNCHANGED <<segvars, trvars, impvars>>

BatchStep ==
    \/ QueryBatch
    \/ ExamineRow
    \/ EndBatch
    \/ BatchExit

BatchNext ==
    \/ StartProcessBatch
    \/ BatchStep
    \/ Interrupt

BatchSpec == BatchInit /\ [][BatchNext]_vars

\* processBatch is sequential code: a step of it that can be taken is taken
\* unless the process is stopped.
BatchFairSpec == BatchSpec /\ WF_vars(BatchStep)

\* ------------------------------------------------------------ properties
Done == pc = "done"

QuotePos == {k \in 1..Len(text) : text[k] = Quote}
QuotesBefore(k) == Cardinality({q \in QuotePos : q < k})
OddQuotes == Cardinality(QuotePos) % 2 = 1

\* The quoted spans <<p, q>>: p an opening quote, q its closing quote.
Spans ==
    {sp \in QuotePos \X QuotePos :
        /\ sp[1] < sp[2]
        /\ QuotesBefore(sp[1]) % 2 = 0
        /\ QuotesBefore(sp[2]) = QuotesBefore(sp[1]) + 1}

\* Two spans with only non-quote text (at least one character) between them.
AdjacentSpans ==
    {pr \in Spans \X Spans :
        /\ pr[1][2] + 1 < pr[2][1]
        /\ QuotesBefore(pr[2][1]) = QuotesBefore(pr[1][2]) + 1}

HasInnerFinal(sp) ==
    \E k \in (sp[1] + 1)..(sp[2] - 1) : text[k] \in Dandas \cup LatinFinals

\* s holds the input characters p..q, contiguous and in order.
Holds(s, p, q) ==
    \E m \in 1..Len(s) :
        /\ m + (q - p) <= Len(s)
        /\ \A d \in 0..(q - p) : s[m + d] = Char(p + d)

\* s ends with the input characters p..q.
EndsWith(s, p, q) ==
    /\ Len(s) >= q - p + 1
    /\ \A d \in 0..(q - p) : s[Len(s) - (q - p) + d] = Char(p + d)

HasPos(s, p) == \E m \in 1..Len(s) : s[m].at = p

TextChars == [k \in 1..Len(text) |-> Char(k)]

RECURSIVE JoinAll(_)
JoinAll(ss) ==
    IF ss = <<>> THEN <<>>
    ELSE IF Len(ss) = 1 THEN ss[1]
    ELSE ss[1] \o <<Space>> \o JoinAll(Tail(ss))

IsContent(c) == c.ch \notin Whitespace \cup Dandas \cup LatinFinals
HasTrueLetter(s) == \E k \in 1..Len(s) : s[k].ch \in Letters
IsDandaOnly(s) == s # <<>> /\ \A k \in 1..Len(s) : s[k].ch \in Dandas

RawHasLetter(q) ==
    \A j \in 1..Len(sentences) : HasPos(sentences[j], q) => HasLetter(sentences[j])

Completeness ==
    Done => SelectSeq(JoinAll(returned), IsContent) = SelectSeq(TextChars, IsContent)

CompletenessWitness ==
    /\ Done
    /\ Len(returned) >= 2
    /\ Len(returned) < Len(sentences)
    /\ Len(SelectSeq(TextChars, IsContent)) >= 2

\* C4. No degenerate units: no returned sentence is empty or without a
\* letter, except a fragment that has no neighbour in either direction.  The
\* exception is read at its widest: a letterless unit is allowed whenever it
\* is the only unit returned.
NoDegenerateUnits ==
    Done =>
        \/ Len(returned) = 1
        \/ \A k \in 1..Len(returned) :
              returned[k] # <<>> /\ HasTrueLetter(returned[k])

\* C5. Orphan danda repair: a raw fragment that is only a danda and follows
\* an accepted sentence (one with a letter) is merged backward into it by
\* the repair step, not accepted as a unit of its own.
OrphanDandaMergedBack ==
    [][(/\ pc = "repair"
        /\ i <= Len(sentences)
        /\ IsDandaOnly(sentences[i])
        /\ Len(result) > 0
        /\ HasTrueLetter(result[Len(result)]))
       => Len(result') = Len(result)]_vars

\* C6. Unterminated quote: with an odd number of quote characters the scan
\* ends with inQuote true, and the text from the unmatched opening quote to
\* the end of input (up to trailing whitespace) is the end of the last raw
\* sentence and of the last returned sentence.
UnterminatedQuoteFlushed ==
    (pc # "scan" /\ OddQuotes) =>
        LET q == MaxOf(QuotePos)
            e == MaxOf({k \in q..Len(text) : text[k] \notin Whitespace})
        IN  /\ inQuote
            /\ sentences # <<>>
            /\ EndsWith(sentences[Len(sentences)], q, e)
            /\ Done => /\ returned # <<>>
                       /\ EndsWith(returned[Len(returned)], q, e)

UnterminatedQuoteWitness ==
    /\ Done
    /\ OddQuotes
    /\ MaxOf(QuotePos) < Len(text)
    /\ Len(returned) >= 2

OnlyWhitespace == \A k \in 1..Len(text) : text[k] \in Whitespace

\* C7. Segmenter totality: for every input the function runs to its return,
\* and for the empty string and for whitespace-only input it returns the
\* empty list.
SegmenterTotality ==
    /\ <>Done
    /\ [](Done /\ OnlyWhitespace => returned = <<>>)

SegmenterTotalityWitness ==
    Done /\ text # <<>> /\ OnlyWhitespace /\ returned = <<>>

AllTrimmedNonEmpty(ss) ==
    \A k \in 1..Len(ss) : ss[k] # <<>> /\ Trim(ss[k]) = ss[k]

\* C8. No empty units: every raw sentence handed to the repair pass, every
\* accepted sentence and every returned sentence is non-empty and equal to
\* its own trim.
NoEmptyUnits ==
    /\ AllTrimmedNonEmpty(sentences)
    /\ AllTrimmedNonEmpty(result)
    /\ AllTrimmedNonEmpty(returned)

\* two delimiters outside quotes with nothing or only spaces between them
NoEmptyUnitsWitness ==
    /\ Done
    /\ returned # <<>>
    /\ QuotePos = {}
    /\ \E p, q \in 1..Len(text) :
        /\ p < q
        /\ text[p] \in Dandas \cup LatinFinals \cup {Newline}
        /\ text[q] = Newline
        /\ \A k \in (p + 1)..(q - 1) : text[k] = " "

\* C9. Transliteration totality: devanagariToIAST never lets an error escape
\* to its caller, whether the base transliteration or the rule application
\* threw; after a failure it returns '', and for '' and any falsy input it
\* returns ''.
TransliterationTotality ==
    /\ trPc # "escaped"
    /\ trPc = "returned" =>
          /\ threw # "none" => out = <<>>
          /\ Falsy(trText) => out = <<>>

\* the rule application threw after a successful base transliteration, and
\* '' was returned
TransliterationTotalityWitness ==
    /\ trPc = "returned"
    /\ threw = "rules"
    /\ base # <<>>
    /\ out = <<>>

\* C10 as claimed. devanagariToIAST returns '' only when its input was
\* empty/falsy or the base transliteration failed.
EmptyOnlyOnBaseFailure ==
    (trPc = "returned" /\ out = <<>>) => (Falsy(trText) \/ threw = "base")

\* nothing of s survives stages 3-5
AllStripped(s) ==
    \A k \in 1..Len(s) : s[k] \in TrDevanagari \cup TrCombining \cup Whitespace

\* C10 as amended. devanagariToIAST returns '' exactly when its input was
\* empty/falsy, or the base transliteration or the rule application threw,
\* or the rule-corrected text consists only of Devanagari-block characters,
\* combining marks and whitespace; in every other case the result is
\* non-empty.
EmptyOnlyOnFailureOrNoResidue ==
    trPc = "returned" =>
        (out = <<>>
            <=> \/ Falsy(trText)
                \/ threw # "none"
                \/ AllStripped(ApplyRuleList(base, rules)))

EmptyOnlyWitness ==
    /\ trPc = "returned"
    /\ threw = "none"
    /\ ~Falsy(trText)
    /\ out = <<>>
    /\ \E k \in 1..Len(trText.s) : trText.s[k] = " "

TrReturnedOk == trPc = "returned" /\ threw = "none" /\ ~Falsy(trText)

\* the pattern p occurs in s
Occurs(p, s) ==
    \E m \in 1..(Len(s) - Len(p) + 1) : SubSeq(s, m, m + Len(p) - 1) = p

\* C12. No script residue: a string returned by devanagariToIAST (through
\* applyRules) holds no character of the Devanagari block, whether the base
\* table left it unmapped or a rule's replacement introduced it.
NoScriptResidue ==
    trPc = "returned" => \A k \in 1..Len(out) : out[k] \notin TrDevanagari

NoScriptResidueWitness ==
    /\ TrReturnedOk
    /\ out # <<>>
    /\ \E k \in 1..Len(ApplyRuleList(base, rules)) :
          ApplyRuleList(base, rules)[k] \in TrDevanagari
    /\ rules = <<RuleQToNukta>>

\* B's pattern matches text that A's replacement introduces, and A's
\* pattern occurs in the text.
LayeredPair(A, B, s) == Occurs(B.from, A.to) /\ Occurs(A.from, s)

TwoValidRules == Len(rules) = 2 /\ AllValid(rules)

\* the result is B applied globally to the output of A applied globally
InLoadOrder(A, B) ==
    out = Cleanup(ReplaceAll(ReplaceAll(base, A.from, A.to), B.from, B.to))

\* C13 as claimed. Rule ordering: rules are applied in load order, each as a
\* global replace on the output of the previous one; for A then B where B's
\* pattern matches text that A's replacement introduces the result carries
\* B's correction, and the reverse order gives a different result.
RuleOrderMatters ==
    (TrReturnedOk /\ TwoValidRules /\ LayeredPair(rules[1], rules[2], base)) =>
        /\ InLoadOrder(rules[1], rules[2])
        /\ out # applyRules(base, <<rules[2], rules[1]>>)

\* B's pattern is one character that the cleanup keeps and that B's
\* replacement does not contain, and A's pattern still occurs in the text
\* after B alone has been applied.
StillFires(A, B, s) ==
    /\ Len(B.from) = 1
    /\ B.from[1] \notin TrDevanagari \cup TrCombining \cup Whitespace
    /\ ~Occurs(B.from, B.to)
    /\ Occurs(A.from, ReplaceAll(s, B.from, B.to))

\* C13 as amended. As claimed, but the reverse order is only said to give a
\* different result when B's pattern is a single character that survives
\* the cleanup and is absent from B's replacement, and A's pattern still
\* occurs after B alone has been applied.
RuleOrderMattersWhenStillFiring ==
    (TrReturnedOk /\ TwoValidRules /\ LayeredPair(rules[1], rules[2], base)) =>
        /\ InLoadOrder(rules[1], rules[2])
        /\ StillFires(rules[1], rules[2], base) =>
              out # applyRules(base, <<rules[2], rules[1]>>)

RuleOrderWitness ==
    /\ TrReturnedOk
    /\ TwoValidRules
    /\ LayeredPair(rules[1], rules[2], base)
    /\ StillFires(rules[1], rules[2], base)
    /\ out # applyRules(base, <<rules[2], rules[1]>>)
    /\ ~Occurs(rules[2].from, out)

\* C14. Idempotent cleanup: the cleanup stages applied to a text that is
\* already their output give the same text.
CleanupIdempotent ==
    (trPc = "returned" /\ threw = "none") => Cleanup(out) = out

CleanupIdempotentWitness ==
    /\ TrReturnedOk
    /\ out # <<>>
    /\ out # ApplyRuleList(base, rules)
    /\ Cleanup(out) = out

\* C15. Normalised output: a returned string holds no combining mark, no
\* leading or trailing whitespace, and no whitespace but single spaces
\* between non-space characters.
NormalisedOutput ==
    trPc = "returned" =>
        /\ \A k \in 1..Len(out) : out[k] \notin TrCombining
        /\ \A k \in 1..Len(out) : out[k] \in Whitespace => out[k] = " "
        /\ out # <<>> => (out[1] # " " /\ out[Len(out)] # " ")
        /\ \A k \in 1..(Len(out) - 1) : ~(out[k] = " " /\ out[k + 1] = " ")

NormalisedOutputWitness ==
    /\ TrReturnedOk
    /\ \E k \in 1..Len(base) : base[k] \in TrCombining
    /\ \E k \in 1..Len(base) : base[k] = Newline
    /\ \E k \in 1..Len(out) : out[k] = " "

\* C16. Missing rule configuration: with the rules file absent or
\* unparsable the module loads without error with an empty rule set, and
\* devanagariToIAST returns the base transliteration with only the cleanup
\* stages applied.
MissingRulesPassThrough ==
    rulesFile.kind \in {"absent", "unparsable"} =>
        /\ trPc # "escaped"
        /\ rules = <<>>
        /\ TrReturnedOk => out = Cleanup(base)

MissingRulesWitness ==
    /\ rulesFile.kind = "unparsable"
    /\ TrReturnedOk
    /\ Occurs(<<"k", "a">>, out)

\* the characters of a list of sentences, without their positions
Plain(ss) == [k \in 1..Len(ss) |-> [j \in 1..Len(ss[k]) |-> ss[k][j].ch]]

\* C20. Both importers split alike: for every input text the
\* splitIntoSentences of import-all-stories-to-railway.js returns the same
\* list of sentences as the splitIntoSentences of import-story.js.
SplittersAgree ==
    Done => Plain(returned) = RailwaySplitIntoSentences(text)

\* the sentences rows of the story the running importer created
MyRows == {r \in rows : r.story_id = imp.id}

\* C11. Failure isolation during import: when transliteration fails for the
\* i-th sentence, importStory still inserts that sentence with its original
\* text and an empty text_iast and goes on to insert every later sentence;
\* a transliteration failure never aborts the import loop.
FailureIsolation ==
    imp.script = "story" =>
        /\ impPc \in {"loop", "done"} =>
              \A j \in 1..(impI - 1) :
                 [story_id |-> imp.id, order_in_story |-> j,
                  text_devanagari |-> imp.sents[j],
                  text_iast |-> IF imp.sents[j] \in FailingTexts
                                   THEN <<>> ELSE <<"iast", imp.sents[j]>>] \in rows
        /\ impPc = "done" => impI = Len(imp.sents) + 1
        /\ impPc = "failed" => impI = 0

FailureIsolationWitness ==
    /\ imp.script = "story"
    /\ impPc = "done"
    /\ \E j \in 1..(Len(imp.sents) - 1) :
          /\ imp.sents[j] \in FailingTexts
          /\ \E r \in MyRows : r.order_in_story = j /\ r.text_iast = <<>>
          /\ \E r \in MyRows : r.order_in_story = j + 1 /\ r.text_iast # <<>>

\* C17. Order assignment: a completed importStory run stores the sentences
\* in the segmenter's output order with order_in_story = 1, 2, ..., n, no
\* gap and no duplicate within the story, and records total_sentences = n
\* on the story row.
OrderAssignment ==
    (imp.script = "story" /\ impPc = "done") =>
        LET n == Len(imp.sents) IN
        /\ {r.order_in_story : r \in MyRows} = 1..n
        /\ Cardinality(MyRows) = n
        /\ \A r \in MyRows : r.text_devanagari = imp.sents[r.order_in_story]
        /\ \E st \in stories : st.id = imp.id /\ st.total_sentences = n
        /\ \A a, b \in stories : a.id = b.id => a = b

OrderAssignmentWitness ==
    /\ imp.script = "story"
    /\ impPc = "done"
    /\ Len(imp.sents) = 3
    /\ {<<r.order_in_story, r.text_devanagari>> : r \in MyRows}
          = {<<1, "s1">>, <<2, "sBad">>, <<3, "s2">>}
    /\ Cardinality(stories) > 1

\* C18. Replace avoids duplicates: starting from a database with at most
\* one story per source_file, after an import of a file with --replace by
\* either script exactly one story row with that source_file exists, its
\* sentences are those of this import, and the database still has at most
\* one story per source_file (so the same holds after any number of them).
ReplaceAvoidsDuplicates ==
    (impPc = "done" /\ imp.replace /\ imp.clean) =>
        /\ StoriesWithFile(imp.file)
              = {[id |-> imp.id, title |-> imp.title, source_file |-> imp.file,
                  total_sentences |-> Len(imp.sents)]}
        /\ {<<r.order_in_story, r.text_devanagari>> : r \in MyRows}
              = {<<j, imp.sents[j]>> : j \in 1..Len(imp.sents)}
        /\ AtMostOnePerFile(stories)

ReplaceAvoidsDuplicatesWitness ==
    /\ impPc = "done"
    /\ imp.replace
    /\ imp.clean
    /\ \E old \in before.stories :
          /\ old.source_file = imp.file
          /\ old.total_sentences # Len(imp.sents)
          /\ old \notin stories
          /\ \A r \in rows : r.story_id # old.id

\* C19. Dry run makes no changes: with --dry-run
\* import-all-stories-to-railway.js issues no database statement for any of
\* the configured stories, and the database stays as it was before the run.
DryRunNoChanges ==
    (imp.script = "railway" /\ imp.dryRun) =>
        /\ stmts = 0
        /\ Snapshot = before

DryRunNoChangesWitness ==
    /\ imp.script = "railway"
    /\ imp.dryRun
    /\ impPc = "next"
    /\ imp.k > Len(STORIES)
    /\ imp.sents # <<>>
    /\ before.rows # {}
    /\ Snapshot = before

\* C21. Repair decision rule: the repair pass visits the raw segments in
\* order; a segment with no letter is appended (space-joined) to the last
\* accepted sentence when there is one, otherwise prepended (space-joined)
\* to the following raw segment, otherwise kept as its own unit; a segment
\* with a letter is accepted unchanged.  The number of returned units never
\* exceeds the number of raw segments.
RepairDecisionRule ==
    /\ [][(pc = "repair" /\ i <= Len(sentences) /\ sentences[i] # <<>>) =>
            LET seg == sentences[i] IN
            /\ i' = i + 1
            /\ IF HasTrueLetter(seg)
                  THEN result' = Append(result, seg) /\ sentences' = sentences
               ELSE IF Len(result) > 0
                  THEN /\ result' = SetLast(result, Join(result[Len(result)], seg))
                       /\ sentences' = sentences
               ELSE IF i + 1 <= Len(sentences)
                  THEN /\ sentences' = [sentences EXCEPT ![i + 1] = Join(seg, @)]
                       /\ result' = result
               ELSE result' = Append(result, seg) /\ sentences' = sentences]_vars
    /\ [](Done => Len(returned) <= Len(sentences))

\* an ordinary character: not whitespace, not a delimiter, not a quote
IsOrdinary(c) == c \notin Whitespace \cup Dandas \cup LatinFinals \cup {Quote}

\* the scan has just ended: sentences holds the raw sentences
ScanEnded == pc = "repair" /\ i = 1

\* C22. Closing quote emits, opening quote does not: in the scan a quote
\* character that closes a quote is appended and ends the current raw
\* sentence as its last character, and one that opens a quote is appended
\* without emitting, so an ordinary character right before an opening quote
\* is in the same raw sentence as the quoted span.
ClosingQuoteEmits ==
    /\ [][(Scanning /\ text[i] = Quote) =>
            IF inQuote
               THEN /\ ~inQuote'
                    /\ current' = <<>>
                    /\ Len(sentences') = Len(sentences) + 1
                    /\ SubSeq(sentences', 1, Len(sentences)) = sentences
                    /\ sentences'[Len(sentences')] = Trim(Append(current, Char(i)))
                    /\ sentences'[Len(sentences')][Len(sentences'[Len(sentences')])] = Char(i)
               ELSE /\ inQuote'
                    /\ sentences' = sentences
                    /\ current' = Append(current, Char(i))]_vars
    /\ [](ScanEnded =>
            \A sp \in Spans :
               (sp[1] > 1 /\ IsOrdinary(text[sp[1] - 1])) =>
                  \E k \in 1..Len(sentences) : Holds(sentences[k], sp[1] - 1, sp[2]))

ClosingQuoteEmitsWitness ==
    /\ ScanEnded
    /\ Len(sentences) >= 2
    /\ \E sp \in Spans :
          /\ sp[1] > 1
          /\ IsOrdinary(text[sp[1] - 1])
          /\ sp[2] < Len(text)
          /\ \E k \in 1..Len(sentences) :
                /\ EndsWith(sentences[k], sp[1] - 1, sp[2])
                /\ k < Len(sentences)

\* the input position p lies outside every quoted span (the quote
\* characters themselves count as inside)
OutsideQuotes(p) == text[p] # Quote /\ QuotesBefore(p) % 2 = 0

FinalMarks == Dandas \cup LatinFinals

\* the emit of the scan: the trimmed buffer is pushed when it is not empty
Emitted(cur) ==
    IF Trim(cur) = <<>> THEN sentences ELSE Append(sentences, Trim(cur))

\* C23. Delimiters outside quotes: while inQuote is false each danda, double
\* danda, . ! or ? is appended to the buffer and ends the current raw
\* sentence, the Latin marks exactly as the danda marks, so in every raw
\* sentence such a mark from outside a quoted span is the final character.
DelimitersEndRawSentence ==
    /\ [][(Scanning /\ ~inQuote /\ text[i] \in FinalMarks) =>
            /\ sentences' = Append(sentences, Trim(Append(current, Char(i))))
            /\ current' = <<>>
            /\ ~inQuote']_vars
    /\ [](ScanEnded =>
            \A k \in 1..Len(sentences) : \A m \in 1..Len(sentences[k]) :
               (/\ sentences[k][m].ch \in FinalMarks
                /\ OutsideQuotes(sentences[k][m].at)) => m = Len(sentences[k]))

DelimitersWitness ==
    /\ ScanEnded
    /\ \E k1, k2 \in 1..Len(sentences) :
          /\ Len(sentences[k1]) >= 2
          /\ sentences[k1][Len(sentences[k1])].ch \in Dandas
          /\ sentences[k2][Len(sentences[k2])].ch \in LatinFinals
          /\ OutsideQuotes(sentences[k2][Len(sentences[k2])].at)

\* C24. Newline is a boundary, not content: while inQuote is false a newline
\* ends the current raw sentence without being appended, so the text before
\* and the text after an outside-quote newline are never in the same raw
\* sentence, and no raw sentence holds such a newline.
NewlineIsBoundary ==
    /\ [][(Scanning /\ ~inQuote /\ text[i] = Newline) =>
            /\ sentences' = Emitted(current)
            /\ current' = <<>>
            /\ ~inQuote']_vars
    /\ [](ScanEnded =>
            \A n \in 1..Len(text) :
               (text[n] = Newline /\ OutsideQuotes(n)) =>
                  \A k \in 1..Len(sentences) :
                     /\ ~HasPos(sentences[k], n)
                     /\ ~ \E a \in 1..(n - 1), b \in (n + 1)..Len(text) :
                           HasPos(sentences[k], a) /\ HasPos(sentences[k], b))

NewlineIsBoundaryWitness ==
    /\ ScanEnded
    /\ \E n \in 2..(Len(text) - 1) :
          /\ text[n] = Newline
          /\ OutsideQuotes(n)
          /\ IsOrdinary(text[n - 1])
          /\ IsOrdinary(text[n + 1])
          /\ \E k \in 1..(Len(sentences) - 1) :
                /\ HasPos(sentences[k], n - 1)
                /\ HasPos(sentences[k + 1], n + 1)

\* C25. Danda, double danda and newline are always sentence boundaries:
\* every one of them in the input ends the sentence being accumulated,
\* whatever the quote state.
DandaNewlineAlwaysBoundary ==
    /\ [][(Scanning /\ text[i] \in Dandas \cup {Newline}) => current' = <<>>]_vars
    /\ [](ScanEnded =>
            \A n \in 1..Len(text) :
               text[n] \in Dandas \cup {Newline} =>
                  \A k \in 1..Len(sentences) :
                     ~ \E a \in 1..(n - 1), b \in (n + 1)..Len(text) :
                          HasPos(sentences[k], a) /\ HasPos(sentences[k], b))

\* C26. Quote-state invariant: at every step of the scan inQuote is true
\* exactly when the number of quote characters consumed so far is odd; no
\* character other than the quote changes inQuote, and emitting a sentence
\* does not reset it.
QuoteStateInvariant ==
    /\ [](pc = "scan" => (inQuote <=> QuotesBefore(i) % 2 = 1))
    /\ [](pc \in {"repair", "done"} => (inQuote <=> OddQuotes))
    /\ [][(Scanning /\ text[i] # Quote) => inQuote' = inQuote]_vars
    /\ [][(Scanning /\ text[i] = Quote) => inQuote' = ~inQuote]_vars

QuoteStateWitness ==
    /\ pc = "scan"
    /\ inQuote
    /\ QuotesBefore(i) = 3
    /\ Len(sentences) >= 1
    /\ current # <<>>
    /\ text[i - 1] # Quote

IsNonSpace(c) == c.ch \notin Whitespace

RECURSIVE Concat(_)
Concat(ss) == IF ss = <<>> THEN <<>> ELSE ss[1] \o Concat(Tail(ss))

\* C27. Exact character preservation: splitIntoSentences removes only
\* whitespace and inserts only single spaces; the non-whitespace characters
\* of the concatenated output are those of the input, in order, delimiters
\* and quote characters included.
ExactPreservation ==
    Done =>
        /\ SelectSeq(Concat(returned), IsNonSpace) = SelectSeq(TextChars, IsNonSpace)
        /\ \A k \in 1..Len(returned) : \A m \in 1..Len(returned[k]) :
              LET c == returned[k][m] IN
              IF c.at = 0
                 THEN /\ c = Space
                      /\ 1 < m /\ m < Len(returned[k])
                      /\ returned[k][m - 1].at # 0
                      /\ returned[k][m + 1].at # 0
                 ELSE c = Char(c.at)

ExactPreservationWitness ==
    /\ Done
    /\ \E k \in 1..Len(returned) : HasPos(returned[k], 0)
    /\ \E n \in 1..Len(text) : text[n] = Newline /\ OutsideQuotes(n)
    /\ \E n \in 1..Len(text) : text[n] \in Dandas
    /\ \E k \in 1..Len(returned) : \E m \in 1..Len(returned[k]) :
          returned[k][m].ch \in Dandas

\* C28. Failed import leaves the database unchanged: in import-story.js,
\* when the file is empty or whitespace-only, or the segmenter returns no
\* sentence, importStory fails before the --replace delete and before the
\* story insert; no row is written or deleted, and an existing story with
\* the same source_file or title is left intact.
FailedImportChangesNothing ==
    imp.script = "story" =>
        /\ (impPc \notin {"idle", "read"} /\ (imp.blank \/ imp.sents = <<>>)) =>
              impPc = "failed"
        /\ impPc = "failed" =>
              /\ imp.blank \/ imp.sents = <<>>
              /\ stmts = 0
              /\ Snapshot = before

FailedImportWitness ==
    /\ imp.script = "story"
    /\ impPc = "failed"
    /\ imp.replace
    /\ StoriesWithFile(imp.file) # {}
    /\ \E st \in StoriesWithTitle(imp.title) : st.source_file # imp.file
    /\ \A st \in stories : \E r \in rows : r.story_id = st.id

LimitMode == bPc # "idle" /\ ~AllRows(options) /\ options.limit > 0
AllMode == bPc # "idle" /\ AllRows(options)
Stopped == bPc \in {"done", "idle"}
RowsLeft == {x \in sentenceIds : x > lastId}
BatchOver == bPc = "rows" /\ batchRows = <<>>

\* C29. Batch re-transliteration terminates within its limit: with a limit
\* L > 0 and without --all, processBatch examines at most L rows in total
\* and then stops; with --all or limit 0 it stops after the first batch that
\* returns fewer rows than the batch size or no row, and not before; in
\* both modes the loop terminates.
BatchTerminates ==
    /\ [](LimitMode => /\ totalProcessed <= options.limit
                       /\ Len(examined) = totalProcessed)
    /\ [][(LimitMode /\ BatchOver /\ totalProcessed >= options.limit) => Stopped']_vars
    /\ [][(AllMode /\ BatchOver /\ got < thisBatchSize) => Stopped']_vars
    /\ [][(AllMode /\ bPc = "top" /\ RowsLeft = {}) => Stopped']_vars
    /\ [][(AllMode /\ BatchOver /\ got = thisBatchSize) => bPc' # "done"]_vars
    /\ [](AllMode /\ bPc = "done" /\ options.batchSize > 0 => RowsLeft = {})
    /\ []<>Stopped

BatchTerminatesWitness ==
    /\ bPc = "done"
    /\ LimitMode
    /\ options.limit = 2
    /\ options.batchSize = 1
    /\ totalProcessed = 2
    /\ RowsLeft # {}

IsPrefix(p, q) == Len(p) <= Len(q) /\ SubSeq(q, 1, Len(p)) = p

\* C30. Batch ordering and checkpoint resume: within a run processBatch
\* examines the rows in strictly increasing id order, each at most once and
\* none skipped, and lastId never decreases; the checkpoint written after a
\* batch holds the id of the last row examined, so a run resumed from it
\* examines exactly rows with a greater id, in order.
CheckpointResume ==
    /\ [](\A a, b \in 1..Len(examined) : a < b => examined[a] < examined[b])
    /\ [](bPc # "idle" =>
            /\ IsPrefix(examined, SortedIds({x \in sentenceIds : x > options.startId}))
            /\ lastId = IF examined = <<>> THEN options.startId
                        ELSE examined[Len(examined)])
    /\ [][bPc' # "idle" => lastId' >= lastId]_vars
    /\ [][(BatchOver /\ options.checkpointFile /\ bPc' # "idle") =>
            checkpoint' = examined[Len(examined)]]_vars
    /\ [][(bPc = "idle" /\ bPc' # "idle" /\ options'.checkpointFile /\ checkpoint # 0) =>
            options'.startId = checkpoint]_vars

CheckpointResumeWitness ==
    /\ bPc = "done"
    /\ options.checkpointFile
    /\ options.startId = 2
    /\ sentenceIds = {1, 2, 3}
    /\ examined = <<3>>
    /\ checkpoint = 3

====
